---- MODULE Spec2Model ----
(***************************************************************************)
(* A model of the cvmfs gateway: the lease table of cvmfs_lease (a         *)
(* gen_server over a mnesia set table keyed by path), the payload          *)
(* submission of cvmfs_payloads_handler, and the HMAC authorization        *)
(* middleware of the Go frontend.                                          *)
(***************************************************************************)
EXTENDS Integers, Sequences, FiniteSets, TLC

VARIABLES
    table,      \* mnesia table `lease`: a set of #lease records, at most one per path
    now,        \* erlang:system_time(milli_seconds)
    last,       \* the request handle_call served last, with its reply (the lager line)
    mailbox,    \* the gen_server's message queue: calls not yet handled
    wpc,        \* per worker: "idle", "waiting" (inside gen_server:call) or "done"
    wres,       \* per worker: the reply its gen_server:call returned
    sink,       \* the payloads the storage backend has accepted
    sub,        \* the payload submission served last, with its outcome
    areq,       \* the HTTP request the authorization middleware served last
    aout,       \* what the middleware did with it
    bstate,     \* the call of backend.Start: its position, cfg, locals and result
    ldbs        \* the lease DBs NewLeaseDB has created, oldest first

vars == <<table, now, last, mailbox, wpc, wres, sink, sub, areq, aout, bstate, ldbs>>

leaseVars == <<table, now, last>>
raceVars == <<mailbox, wpc, wres>>
submitVars == <<sink, sub>>
authzVars == <<areq, aout>>
backendVars == <<bstate, ldbs>>

-----------------------------------------------------------------------------
(* Bounds of the model and the inputs the operations are called with.      *)

\* application:get_env(cvmfs_services, max_lease_time), in clock ticks
MaxLeaseTime == 2

\* the clock stops advancing here
MaxTime == 3

\* the clock may advance by at most this much between the two readings of
\* erlang:system_time inside one p_new_lease transaction
MaxDrift == 1

\* paths are sequences of components: "/", "/a", "/a/b", "/ab"
Paths == { <<>>, <<"a">>, <<"a", "b">>, <<"ab">> }

Users == { "alice" }

Publics == { "pub1", "pub2" }

Secrets == { "sec1" }

Workers == { "w1", "w2" }

-----------------------------------------------------------------------------
(* cvmfs_path_util:are_overlapping/2: component-wise prefix in either       *)
(* direction.                                                              *)

IsPrefix(a, b) ==
    /\ Len(a) <= Len(b)
    /\ \A i \in 1..Len(a) : a[i] = b[i]

are_overlapping(a, b) == IsPrefix(a, b) \/ IsPrefix(b, a)

-----------------------------------------------------------------------------
(* The mnesia operations the module uses on the set table `lease`.         *)

\* mnesia:delete({lease, Path})
mnesia_delete(tbl, Path) == { l \in tbl : l.path # Path }

\* mnesia:write(Record): a set table keeps one record per key (path)
mnesia_write(tbl, rec) == mnesia_delete(tbl, rec.path) \cup { rec }

\* p_write_row/4: the row carries the time read at the write
p_write_row(tbl, User, Path, Public, Secret, WriteTime) ==
    mnesia_write(tbl, [path |-> Path, u_id |-> User, public |-> Public,
                       secret |-> Secret, time |-> WriteTime])

\* the remaining time counted one tick too long: a lease still held at the
\* instant its time is up
RemainingTime_inclusive(CurrentTime, Time) == MaxLeaseTime - (CurrentTime - Time) + 1

\* RemainingTime = MaxLeaseTime - (CurrentTime - Time)
RemainingTime(CurrentTime, Time) == MaxLeaseTime - (CurrentTime - Time)

\* the rows mnesia:select(lease, MS) returns in p_new_lease: MS matches P =:= Path
new_lease_select(tbl, Path) == { l \in tbl : l.path = Path }

\* lists:filter(AreOverlapping, ...) over the selected rows
new_lease_overlaps(tbl, Path) ==
    { l \in new_lease_select(tbl, Path) : are_overlapping(l.path, Path) }

\* p_new_lease without the look at the table: the row is written whatever the
\* table holds (the scan of one call not seeing the insert of the other)
p_new_lease_unserialized(tbl, User, Path, Public, Secret, CurrentTime, WriteTime) ==
    [table |-> p_write_row(tbl, User, Path, Public, Secret, WriteTime),
     wrote |-> TRUE,
     reply |-> [res |-> "ok"]]

\* p_new_lease/5, the transaction T: the new table, the reply, and whether a
\* row was written (and the clock read a second time)
p_new_lease(tbl, User, Path, Public, Secret, CurrentTime, WriteTime) ==
    LET found == { l \in new_lease_overlaps(tbl, Path) : l.path = Path }
    IN  IF found # {}
        THEN LET l   == CHOOSE x \in found : TRUE
                 rem == RemainingTime(CurrentTime, l.time)
             IN  IF rem > 0
                 THEN [table |-> tbl, wrote |-> FALSE,
                       reply |-> [res |-> "busy", rem |-> rem]]
                 ELSE [table |-> p_write_row(mnesia_delete(tbl, Path), User, Path,
                                             Public, Secret, WriteTime),
                       wrote |-> TRUE,
                       reply |-> [res |-> "ok"]]
        ELSE [table |-> p_write_row(tbl, User, Path, Public, Secret, WriteTime),
              wrote |-> TRUE,
              reply |-> [res |-> "ok"]]

\* the rows mnesia:select(lease, MS) returns in p_check_lease and p_end_lease:
\* MS matches public =:= Public; the index on public is not unique
public_select(tbl, Public) == { l \in tbl : l.public = Public }

\* a check that deletes the row it has found whatever its age
p_check_lease_row_deleting(tbl, l, CurrentTime) ==
    IF RemainingTime(CurrentTime, l.time) > 0
    THEN [table |-> mnesia_delete(tbl, l.path),
          reply |-> [res |-> "ok", secret |-> l.secret]]
    ELSE [table |-> mnesia_delete(tbl, l.path),
          reply |-> [res |-> "error", reason |-> "lease_expired"]]

\* p_check_lease/1 with the row `l` at the head of the selection
p_check_lease_row(tbl, l, CurrentTime) ==
    IF RemainingTime(CurrentTime, l.time) > 0
    THEN [table |-> tbl, reply |-> [res |-> "ok", secret |-> l.secret]]
    ELSE [table |-> mnesia_delete(tbl, l.path),
          reply |-> [res |-> "error", reason |-> "lease_expired"]]

\* p_check_lease/1: every outcome the transaction can have; the order of the
\* rows mnesia:select returns is not specified, so any matching row can be
\* the head
p_check_lease(tbl, Public, CurrentTime) ==
    IF public_select(tbl, Public) = {}
    THEN { [table |-> tbl, reply |-> [res |-> "error", reason |-> "invalid_lease"]] }
    ELSE { p_check_lease_row(tbl, l, CurrentTime) : l \in public_select(tbl, Public) }

\* p_end_lease/1: every outcome; the reply is mnesia:delete's ok or ok
p_end_lease(tbl, Public) ==
    IF public_select(tbl, Public) = {}
    THEN { [table |-> tbl, reply |-> [res |-> "ok"]] }
    ELSE { [table |-> mnesia_delete(tbl, l.path), reply |-> [res |-> "ok"]]
           : l \in public_select(tbl, Public) }

\* p_get_leases/0: mnesia:foldl collects every row of the table
p_get_leases(tbl) == [table |-> tbl, reply |-> [res |-> "leases", leases |-> tbl]]

\* a clear that leaves the rows in place
p_clear_leases_kept(tbl) == [table |-> tbl, reply |-> [res |-> "ok"]]

\* p_clear_leases/0: mnesia:clear_table(lease)
p_clear_leases(tbl) == [table |-> {}, reply |-> [res |-> "ok"]]

-----------------------------------------------------------------------------
(* The gen_server: each handle_call clause runs to completion before the   *)
(* next message is taken.  In Spec a call and its handling are one step.   *)

NoRequest == [op |-> "none"]

Init ==
    /\ table = {}
    /\ now = 0
    /\ last = NoRequest
    /\ mailbox = <<>>
    /\ wpc = [w \in Workers |-> "idle"]
    /\ wres = [w \in Workers |-> NoRequest]
    /\ sink = {}
    /\ sub = NoRequest
    /\ areq = NoRequest
    /\ aout = NoRequest
    /\ bstate = [pc |-> "idle", n |-> 0]
    /\ ldbs = <<>>

\* the clock advances
Tick ==
    /\ now < MaxTime
    /\ now' = now + 1
    /\ UNCHANGED <<table, last, raceVars, submitVars, authzVars, backendVars>>

\* handle_call({lease_req, new_lease, {User, Path, Public, Secret}}, ...): the
\* transaction reads the clock (CurrentTime), and p_write_row reads it again
\* d ticks later
HandleNewLease(User, Path, Public, Secret, d) ==
    LET r == p_new_lease(table, User, Path, Public, Secret, now, now + d)
    IN  /\ now + d <= MaxTime
        /\ (~r.wrote) => d = 0
        /\ table' = r.table
        /\ now' = now + d
        /\ last' = [op |-> "new_lease", user |-> User, path |-> Path,
                    public |-> Public, reply |-> r.reply]

\* request_lease/4 and the handling of its call, as one step
NewLease(User, Path, Public, Secret) ==
    /\ \E d \in 0..MaxDrift : HandleNewLease(User, Path, Public, Secret, d)
    /\ UNCHANGED <<raceVars, submitVars, authzVars, backendVars>>

\* handle_call({lease_req, end_lease, Public}, ...)
EndLease(Public) ==
    \E r \in p_end_lease(table, Public) :
        /\ table' = r.table
        /\ last' = [op |-> "end_lease", public |-> Public,
                    reply |-> r.reply]
        /\ UNCHANGED <<now, raceVars, submitVars, authzVars, backendVars>>

\* handle_call({lease_req, check_lease, Public}, ...)
CheckLease(Public) ==
    \E r \in p_check_lease(table, Public, now) :
        /\ table' = r.table
        /\ last' = [op |-> "check_lease", public |-> Public,
                    reply |-> r.reply]
        /\ UNCHANGED <<now, raceVars, submitVars, authzVars, backendVars>>

\* handle_call({lease_req, get_leases}, ...)
GetLeases ==
    /\ table' = p_get_leases(table).table
    /\ last' = [op |-> "get_leases", reply |-> p_get_leases(table).reply]
    /\ UNCHANGED <<now, raceVars, submitVars, authzVars, backendVars>>

\* handle_call({lease_req, clear_leases}, ...)
ClearLeases ==
    /\ table' = p_clear_leases(table).table
    /\ last' = [op |-> "clear_leases", reply |-> p_clear_leases(table).reply]
    /\ UNCHANGED <<now, raceVars, submitVars, authzVars, backendVars>>

Next ==
    \/ Tick
    \/ \E u \in Users, p \in Paths, pub \in Publics, s \in Secrets : NewLease(u, p, pub, s)
    \/ \E pub \in Publics : EndLease(pub)
    \/ \E pub \in Publics : CheckLease(pub)
    \/ GetLeases
    \/ ClearLeases

Spec == Init /\ [][Next]_vars

-----------------------------------------------------------------------------
(* Concurrent callers.  request_lease/4 is a gen_server:call: the caller's *)
(* message joins the server's mailbox and the caller waits; the server     *)
(* takes one message at a time and runs handle_call to its reply.          *)

\* request_lease/4: gen_server:call(?MODULE, {lease_req, new_lease, ...})
Call(w, User, Path, Public, Secret) ==
    /\ wpc[w] = "idle"
    /\ mailbox' = Append(mailbox, [from |-> w, user |-> User, path |-> Path,
                                   public |-> Public, secret |-> Secret])
    /\ wpc' = [wpc EXCEPT ![w] = "waiting"]
    /\ UNCHANGED <<leaseVars, wres, submitVars, authzVars, backendVars>>

\* the server takes the message at the head of the mailbox, runs
\* handle_call({lease_req, new_lease, ...}) and replies to the caller.  The
\* caller's record keeps the reply, the time the transaction read, the time
\* of the row when one was written, and how many calls were still queued.
Serve ==
    /\ mailbox # <<>>
    /\ LET m == Head(mailbox)
       IN  \E d \in 0..MaxDrift :
               /\ HandleNewLease(m.user, m.path, m.public, m.secret, d)
               /\ wres' = [wres EXCEPT ![m.from] =
                              [op |-> "new_lease", path |-> m.path,
                               reply |-> last'.reply, at |-> now, row |-> now + d,
                               pending |-> Len(mailbox) - 1]]
               /\ wpc' = [wpc EXCEPT ![m.from] = "done"]
    /\ mailbox' = Tail(mailbox)
    /\ UNCHANGED <<submitVars, authzVars, backendVars>>

NextRace ==
    \/ Tick
    \/ \E w \in Workers, u \in Users, p \in Paths, pub \in Publics, s \in Secrets :
           Call(w, u, p, pub, s)
    \/ Serve

SpecRace == Init /\ [][NextRace]_vars

-----------------------------------------------------------------------------
(* Payload submission: cvmfs_payloads_handler:p_submit_payload/3.          *)

Payloads == { "hello", "HELLO" }

\* crypto:hash(sha, Payload): the digest of a payload, one per payload
crypto_hash_sha(Payload) == <<"sha1", Payload>>

\* base64:encode/1: the text that encodes the bytes
base64_encode(bytes) == <<"b64", bytes>>

\* the texts a client declares as hash: the encoded digest of each payload, an
\* encoded byte string that is no digest, and a text that is not base64
Hashes ==
    { base64_encode(crypto_hash_sha(p)) : p \in Payloads }
        \cup { base64_encode(<<"sha1", "other">>), <<"text", "%%%">> }

\* base64:decode/1: the bytes a base64 text encodes; on any other text it
\* raises an exception
base64_decode(text) ==
    IF text[1] = "b64"
    THEN [ok |-> TRUE, bytes |-> text[2]]
    ELSE [ok |-> FALSE]

\* a session token carries the public of its lease
Tokens == { <<"token", pub>> : pub \in Publics }

token_public(Token) == Token[2]

\* cvmfs_be:submit_payload/2: checks the lease of the token, then hands the
\* payload to the storage backend, which accepts it or fails
be_submit_payload(tbl, snk, Token, Payload, CurrentTime, accept) ==
    { IF c.reply.res = "ok"
      THEN IF accept
           THEN [table |-> c.table, sink |-> snk \cup { Payload },
                 sinkCalled |-> TRUE, result |-> [res |-> "ok"]]
           ELSE [table |-> c.table, sink |-> snk,
                 sinkCalled |-> TRUE,
                 result |-> [res |-> "error", reason |-> "sink_error"]]
      ELSE [table |-> c.table, sink |-> snk,
            sinkCalled |-> FALSE,
            result |-> [res |-> "error", reason |-> c.reply.reason]]
      : c \in p_check_lease(tbl, token_public(Token), CurrentTime) }

\* p_submit_payload/3 without the comparison of the hashes
p_submit_payload_unverified(tbl, snk, Token, Payload, Hash, CurrentTime, accept) ==
    { [table |-> b.table, sink |-> b.sink, crashed |-> FALSE,
       beCalled |-> TRUE, sinkCalled |-> b.sinkCalled,
       reply |-> IF b.result.res = "ok"
                 THEN [status |-> "ok"]
                 ELSE [status |-> "error", reason |-> b.result.reason]]
      : b \in be_submit_payload(tbl, snk, Token, Payload, CurrentTime, accept) }

\* p_submit_payload/3 with the lease of the token checked first and the hashes
\* compared after
p_submit_payload_lease_first(tbl, snk, Token, Payload, Hash, CurrentTime, accept) ==
    { IF c.reply.res # "ok"
      THEN [table |-> c.table, sink |-> snk, crashed |-> FALSE,
            beCalled |-> TRUE, sinkCalled |-> FALSE,
            reply |-> [status |-> "error", reason |-> c.reply.reason]]
      ELSE IF ~base64_decode(Hash).ok
      THEN [table |-> c.table, sink |-> snk, crashed |-> TRUE,
            beCalled |-> TRUE, sinkCalled |-> FALSE,
            reply |-> [status |-> "exception"]]
      ELSE IF crypto_hash_sha(Payload) # base64_decode(Hash).bytes
      THEN [table |-> c.table, sink |-> snk, crashed |-> FALSE,
            beCalled |-> TRUE, sinkCalled |-> FALSE,
            reply |-> [status |-> "error", reason |-> "invalid_payload_hash"]]
      ELSE IF accept
      THEN [table |-> c.table, sink |-> snk \cup { Payload }, crashed |-> FALSE,
            beCalled |-> TRUE, sinkCalled |-> TRUE, reply |-> [status |-> "ok"]]
      ELSE [table |-> c.table, sink |-> snk, crashed |-> FALSE,
            beCalled |-> TRUE, sinkCalled |-> TRUE,
            reply |-> [status |-> "error", reason |-> "sink_error"]]
      : c \in p_check_lease(tbl, token_public(Token), CurrentTime) }

\* p_submit_payload/3: every outcome.  base64:decode raises on a text that is
\* not base64 and the function returns no reply
p_submit_payload(tbl, snk, Token, Payload, Hash, CurrentTime, accept) ==
    LET HashBinary == base64_decode(Hash)
    IN  IF ~HashBinary.ok
        THEN { [table |-> tbl, sink |-> snk, crashed |-> TRUE,
                beCalled |-> FALSE, sinkCalled |-> FALSE,
                reply |-> [status |-> "exception"]] }
        ELSE IF crypto_hash_sha(Payload) = HashBinary.bytes
        THEN { [table |-> b.table, sink |-> b.sink, crashed |-> FALSE,
                beCalled |-> TRUE, sinkCalled |-> b.sinkCalled,
                reply |-> IF b.result.res = "ok"
                          THEN [status |-> "ok"]
                          ELSE [status |-> "error", reason |-> b.result.reason]]
               : b \in be_submit_payload(tbl, snk, Token, Payload, CurrentTime, accept) }
        ELSE { [table |-> tbl, sink |-> snk, crashed |-> FALSE,
                beCalled |-> FALSE, sinkCalled |-> FALSE,
                reply |-> [status |-> "error", reason |-> "invalid_payload_hash"]] }

\* a submission: p_submit_payload(Token, Payload, Hash), with the storage
\* backend accepting the payload or not
Submit(Token, Payload, Hash, accept) ==
    \E r \in p_submit_payload(table, sink, Token, Payload, Hash, now, accept) :
        /\ table' = r.table
        /\ sink' = r.sink
        /\ sub' = [op |-> "submit", token |-> Token, payload |-> Payload,
                   hash |-> Hash, crashed |-> r.crashed, beCalled |-> r.beCalled,
                   sinkCalled |-> r.sinkCalled, reply |-> r.reply]
        /\ UNCHANGED <<now, last, raceVars, authzVars, backendVars>>

\* the paths leases are taken on while payloads are submitted
SubmitPaths == { <<"a">>, <<"ab">> }

NextSubmit ==
    \/ Tick
    \/ \E u \in Users, p \in SubmitPaths, pub \in Publics, s \in Secrets :
           NewLease(u, p, pub, s)
    \/ \E pub \in Publics : EndLease(pub)
    \/ \E t \in Tokens, p \in Payloads, h \in Hashes, acc \in BOOLEAN :
           Submit(t, p, h, acc)

SpecSubmit == Init /\ [][NextSubmit]_vars

-----------------------------------------------------------------------------
(* The handler of the payloads resource: cvmfs_payloads_handler:init/2.    *)

HandlerMethods == { "GET", "POST", "PUT", "DELETE" }

\* the fields of the JSON object a submission carries
FieldNames == { "session_token", "payload", "hash" }

\* the JSON objects clients send: `has` is the set of fields present; every
\* value of the three fields when all are present, one object for each set of
\* fields when some are missing (their values are never looked at)
JsonObjects ==
    [has : { FieldNames }, session_token : Tokens, payload : Payloads, hash : Hashes]
        \cup [has : (SUBSET FieldNames) \ { FieldNames },
              session_token : { <<"token", "pub1">> }, payload : { "hello" },
              hash : { base64_encode(crypto_hash_sha("hello")) }]

\* the request bodies: the text of a JSON object, or a text that is not JSON
RequestData == { <<"json", o>> : o \in JsonObjects } \cup { <<"text", "{">> }

\* jsx:decode(Data, [return_maps]): the map of a JSON object; on a text that
\* is not JSON it raises badarg
jsx_decode(Data) ==
    IF Data[1] = "json" THEN [ok |-> TRUE, map |-> Data[2]] ELSE [ok |-> FALSE]

\* what init/2 did with a request: the status of cowboy_req:reply and the
\* reply body, or an exception and no reply
HandlerOutcome(tbl, snk, crashed, status, submitCalled, reply) ==
    [table |-> tbl, sink |-> snk, crashed |-> crashed, status |-> status,
     submitCalled |-> submitCalled, reply |-> reply]

\* init/2: every outcome.  There is a clause for GET and one for POST; any
\* other method matches no clause (function_clause).  In the POST clause
\* jsx:decode raises on malformed JSON, a map with the three fields goes to
\* p_submit_payload and is answered 200, anything else is answered 400
init(tbl, snk, Method, Data, CurrentTime, accept) ==
    IF Method = "GET"
    THEN { HandlerOutcome(tbl, snk, FALSE, 405, FALSE, [status |-> "none"]) }
    ELSE IF Method = "POST"
    THEN LET Decoded == jsx_decode(Data)
         IN  IF ~Decoded.ok
             THEN { HandlerOutcome(tbl, snk, TRUE, 0, FALSE, [status |-> "exception"]) }
             ELSE IF FieldNames \subseteq Decoded.map.has
             THEN { IF r.crashed
                    THEN HandlerOutcome(r.table, r.sink, TRUE, 0, TRUE, r.reply)
                    ELSE HandlerOutcome(r.table, r.sink, FALSE, 200, TRUE, r.reply)
                    : r \in p_submit_payload(tbl, snk, Decoded.map.session_token,
                                             Decoded.map.payload, Decoded.map.hash,
                                             CurrentTime, accept) }
             ELSE { HandlerOutcome(tbl, snk, FALSE, 400, FALSE, [status |-> "none"]) }
    ELSE { HandlerOutcome(tbl, snk, TRUE, 0, FALSE, [status |-> "exception"]) }

\* cowboy hands a request for /api/payloads to init/2
PayloadsRequest(Method, Data, accept) ==
    \E r \in init(table, sink, Method, Data, now, accept) :
        /\ table' = r.table
        /\ sink' = r.sink
        /\ sub' = [op |-> "http", method |-> Method, data |-> Data,
                   crashed |-> r.crashed, status |-> r.status,
                   submitCalled |-> r.submitCalled, reply |-> r.reply]
        /\ UNCHANGED <<now, last, raceVars, authzVars, backendVars>>

\* the path leases are taken on while the handler serves requests
HandlerPaths == { <<"a">> }

NextHandler ==
    \/ Tick
    \/ \E u \in Users, p \in HandlerPaths, pub \in Publics, s \in Secrets :
           NewLease(u, p, pub, s)
    \/ \E m \in HandlerMethods, d \in RequestData, acc \in BOOLEAN :
           PayloadsRequest(m, d, acc)

SpecHandler == Init /\ [][NextHandler]_vars

-----------------------------------------------------------------------------
(* The HMAC authorization middleware of the frontend: MakeAuthzMiddleware. *)
(* Byte strings are sequences of small numbers.  A header is a sequence of *)
(* pieces of text: a space, a key ID, a base64 text or some other text.    *)

Bodies == { <<>>, <<1>>, <<1, 2>> }

\* the {token} segment of a route; the empty string when the route has none
RouteTokens == { <<>>, <<1>>, <<1, 2>> }

Methods == { "GET", "HEAD", "POST", "DELETE" }

Resources == { "leases", "payloads", "repos" }

SP == <<"sp">>

KeyID(name) == <<"key", name>>

\* base64.StdEncoding.EncodeToString
B64(bytes) == <<"b64", bytes>>

\* HMAC-SHA1 of a message under a secret: one value per secret and message
ComputeHMAC(message, secret) == <<"hmac", secret, message>>

\* CheckHMAC(message, HMAC, secret) of the frontend: the digest given equals
\* the one computed
CheckHMAC(message, HMAC, secret) ==
    /\ Len(HMAC) = 3
    /\ HMAC = ComputeHMAC(message, secret)

\* ac.GetSecret(keyID): the secret of a key the access configuration knows,
\* the empty string for any other key ID
GetSecret(keyID) ==
    IF Len(keyID) = 1 /\ keyID[1][1] = "key" /\ keyID[1][2] = "key1"
    THEN "secret1"
    ELSE ""

\* the digests clients send: of each body or token, under the secret of key1,
\* under the empty secret and under another secret
ClientHMACs ==
    { ComputeHMAC(m, sec) : m \in Bodies, sec \in { "secret1", "", "other" } }

\* the Authorization headers clients send
AuthHeaders ==
    { <<KeyID(k), SP, B64(h)>> : k \in { "key1", "nokey" }, h \in ClientHMACs }
        \cup { <<>>,
               <<KeyID("key1")>>,
               <<KeyID("key1"), SP>>,
               <<SP, B64(ComputeHMAC(<<1>>, "secret1"))>>,
               <<KeyID("key1"), B64(ComputeHMAC(<<1>>, "secret1"))>>,
               <<KeyID("key1"), SP, SP, B64(ComputeHMAC(<<1>>, "secret1"))>>,
               <<KeyID("key1"), SP, B64(ComputeHMAC(<<1>>, "secret1")), SP>>,
               <<KeyID("key1"), SP, <<"text", "%%%">>>> }

\* the values of the message-size header: absent, not a number, or the
\* decimal text of a number
MaxMsgSize == 3

MessageSizes ==
    { <<"text", "">>, <<"text", "1x">> } \cup { <<"int", n>> : n \in -1..MaxMsgSize }

\* strconv.Atoi
strconv_Atoi(text) ==
    IF text[1] = "int" THEN [ok |-> TRUE, n |-> text[2]] ELSE [ok |-> FALSE]

\* strings.Split(s, " "): the stretches of s between its spaces
RECURSIVE strings_Split(_)
strings_Split(s) ==
    IF \A i \in 1..Len(s) : s[i][1] # "sp"
    THEN << s >>
    ELSE LET k == CHOOSE i \in 1..Len(s) :
                      /\ s[i][1] = "sp"
                      /\ \A j \in 1..(i - 1) : s[j][1] # "sp"
         IN  << SubSeq(s, 1, k - 1) >> \o strings_Split(SubSeq(s, k + 1, Len(s)))

\* base64.StdEncoding.DecodeString: the empty text decodes to no bytes, a
\* base64 text to its bytes, anything else is an error
base64_DecodeString(text) ==
    IF text = <<>> THEN [ok |-> TRUE, bytes |-> <<>>]
    ELSE IF Len(text) = 1 /\ text[1][1] = "b64" THEN [ok |-> TRUE, bytes |-> text[1][2]]
    ELSE [ok |-> FALSE]

\* the requests served: the body is a stream over `body` that, when `broken`,
\* fails instead of reporting its end
Requests ==
    [method : Methods, resource : Resources, token : RouteTokens,
     auth : AuthHeaders, msgsize : MessageSizes, body : Bodies, broken : BOOLEAN]

\* a read that takes a stream shorter than n bytes as an error
ReadLimited_exact(req, n) ==
    IF n <= 0 THEN [ok |-> TRUE, bytes |-> <<>>]
    ELSE IF n <= Len(req.body) THEN [ok |-> TRUE, bytes |-> SubSeq(req.body, 1, n)]
    ELSE [ok |-> FALSE]

\* ioutil.ReadAll(io.LimitReader(req.Body, n)): at most n bytes; the end of
\* the stream is reached only when n exceeds what it holds
ReadLimited(req, n) ==
    IF n <= 0 THEN [ok |-> TRUE, bytes |-> <<>>]
    ELSE IF n <= Len(req.body) THEN [ok |-> TRUE, bytes |-> SubSeq(req.body, 1, n)]
    ELSE IF req.broken THEN [ok |-> FALSE]
    ELSE [ok |-> TRUE, bytes |-> req.body]

\* ioutil.ReadAll(req.Body)
ReadAll(req) ==
    IF req.broken THEN [ok |-> FALSE] ELSE [ok |-> TRUE, bytes |-> req.body]

\* a reader that hands on the unread tail only
recombineRead_tail(head, req) == SubSeq(req.body, Len(head) + 1, Len(req.body))

\* newRecombineReadCloser(head, tail).Read: the head, then what the original
\* stream has left
recombineRead(head, req) == head \o SubSeq(req.body, Len(head) + 1, Len(req.body))

\* what the middleware does with a request
Outcome(next, reply, checked, input, handlerBody, closed) ==
    [next |-> next, reply |-> reply, checked |-> checked, hmacInput |-> input,
     handlerBody |-> handlerBody, origClosed |-> closed]

InvalidHMAC == [kind |-> "json", status |-> "error", reason |-> "invalid_hmac"]

HTTPError(code) == [kind |-> "http", code |-> code]

NoReply == [kind |-> "none"]

\* the signed material taken from the body whatever the route
HMACInputOf_body(req) ==
    [ok |-> TRUE, input |-> req.body, handlerBody |-> req.body, closed |-> TRUE]

\* the part of the request the HMAC is computed on, by route: the signed
\* material, what the next handler will read as body, whether the original
\* body has been closed, or the error reply
HMACInputOf(req) ==
    IF req.resource = "leases"
    THEN IF req.token # <<>>
         THEN [ok |-> TRUE, input |-> req.token, handlerBody |-> req.body,
               closed |-> FALSE]
         ELSE IF ~ReadAll(req).ok
              THEN [ok |-> FALSE, reply |-> HTTPError(500), closed |-> FALSE]
              ELSE [ok |-> TRUE, input |-> ReadAll(req).bytes,
                    handlerBody |-> ReadAll(req).bytes, closed |-> TRUE]
    ELSE IF req.resource = "payloads"
    THEN IF req.token # <<>>
         THEN [ok |-> TRUE, input |-> req.token, handlerBody |-> req.body,
               closed |-> FALSE]
         ELSE IF ~strconv_Atoi(req.msgsize).ok
              THEN [ok |-> FALSE, reply |-> HTTPError(400), closed |-> FALSE]
              ELSE LET msg == ReadLimited(req, strconv_Atoi(req.msgsize).n)
                   IN  IF ~msg.ok
                       THEN [ok |-> FALSE, reply |-> HTTPError(400), closed |-> FALSE]
                       ELSE [ok |-> TRUE, input |-> msg.bytes,
                             handlerBody |-> recombineRead(msg.bytes, req),
                             closed |-> FALSE]
    ELSE [ok |-> TRUE, input |-> <<>>, handlerBody |-> req.body, closed |-> FALSE]

\* len(tokens) != 2
tokens_malformed(tokens) == Len(tokens) # 2

\* a secret that is never taken as missing
secret_missing_never(secret) == FALSE

\* len(secret) == 0
secret_missing(secret) == secret = ""

\* no method is let through unverified
no_authorization_needed_never(req) == FALSE

\* req.Method == "GET": GET requests do not need authorization
no_authorization_needed(req) == req.method = "GET"

\* the handler MakeAuthzMiddleware returns, applied to a request
MakeAuthzMiddleware(req) ==
    IF no_authorization_needed(req)
    THEN Outcome(TRUE, NoReply, FALSE, <<>>, req.body, FALSE)
    ELSE LET tokens == strings_Split(req.auth)
         IN  IF tokens_malformed(tokens)
             THEN Outcome(FALSE, InvalidHMAC, FALSE, <<>>, <<>>, FALSE)
             ELSE LET keyID  == tokens[1]
                      HMAC   == base64_DecodeString(tokens[2])
                      secret == GetSecret(keyID)
                      sel    == HMACInputOf(req)
                  IN  IF ~HMAC.ok
                      THEN Outcome(FALSE, InvalidHMAC, FALSE, <<>>, <<>>, FALSE)
                      ELSE IF secret_missing(secret)
                      THEN Outcome(FALSE, InvalidHMAC, FALSE, <<>>, <<>>, FALSE)
                      ELSE IF ~sel.ok
                      THEN Outcome(FALSE, sel.reply, FALSE, <<>>, <<>>, sel.closed)
                      ELSE IF ~CheckHMAC(sel.input, HMAC.bytes, secret)
                      THEN Outcome(FALSE, InvalidHMAC, TRUE, sel.input, <<>>, sel.closed)
                      ELSE Outcome(TRUE, NoReply, TRUE, sel.input, sel.handlerBody,
                                   sel.closed)

\* whether the original body stream is closed once the request is done with:
\* a request that is not handed on stays as the middleware left it; the next
\* handler closes req.Body, which is the recombineReadCloser (its Close closes
\* the original), the NopCloser copy (the original was closed when it was
\* replaced) or the original itself
ClosedAfterHandler(req, out) ==
    IF ~out.next THEN out.origClosed
    ELSE IF no_authorization_needed(req) THEN TRUE
    ELSE IF req.resource = "leases" /\ req.token = <<>> THEN out.origClosed
    ELSE TRUE

\* the server passes a request through the middleware
Authorize(req) ==
    /\ areq' = [op |-> "request"] @@ req
    /\ aout' = MakeAuthzMiddleware(req)
    /\ UNCHANGED <<leaseVars, raceVars, submitVars, backendVars>>

\* the middleware keeps nothing from one request to the next: a behaviour
\* serves one request
NextAuthz ==
    /\ areq = NoRequest
    /\ \E req \in Requests : Authorize(req)

SpecAuthz == Init /\ [][NextAuthz]_vars

-----------------------------------------------------------------------------
(* The start of the backend services: backend.Start.                       *)

\* the gateway is started at most this many times
MaxStarts == 3

\* cfg.AccessConfigFile: no file named, or the name of a file
AccessConfigFiles == { "", "repo.json", "other.json" }

\* the fields of gw.Config that Start reads
Configs == [AccessConfigFile : AccessConfigFiles, UseEtcd : BOOLEAN]

\* ac.Load(cfg.AccessConfigFile): whether the file loads; without a file it
\* fails, and a file named may be missing or malformed
ac_Load(file) == IF file = "" THEN { FALSE } ELSE { TRUE, FALSE }

\* NewLeaseDB(leaseDBType, cfg): whether a lease DB of the type is created
NewLeaseDB(type, cfg) == { TRUE, FALSE }

\* the lease DB type taken from nothing in the configuration
leaseDBType_embedded(cfg) == "embedded"

\* leaseDBType := "embedded"; if cfg.UseEtcd { leaseDBType = "etcd" }
leaseDBType(cfg) == IF cfg.UseEtcd THEN "etcd" ELSE "embedded"

\* the nil *Services, and the nil error
Nil == [nil |-> TRUE]

\* errors.Wrap(err, message)
errors_Wrap(message) == [nil |-> FALSE, message |-> message]

\* Start(cfg) is called: ac := NewAccessConfig()
StartCall(cfg) ==
    /\ bstate.pc \in { "idle", "returned" }
    /\ bstate.n < MaxStarts
    /\ bstate' = [pc |-> "load", n |-> bstate.n + 1, cfg |-> cfg,
                  loaded |-> FALSE, dbType |-> "none", created |-> FALSE]
    /\ UNCHANGED <<ldbs, leaseVars, raceVars, submitVars, authzVars>>

\* if err := ac.Load(cfg.AccessConfigFile); err != nil { return nil, ... }
Load ==
    /\ bstate.pc = "load"
    /\ \E ok \in ac_Load(bstate.cfg.AccessConfigFile) :
           bstate' = IF ok
                     THEN [bstate EXCEPT !.pc = "newdb", !.loaded = TRUE]
                     ELSE [pc |-> "returned", services |-> Nil,
                           err |-> errors_Wrap("loading repository access configuration failed")]
                              @@ bstate
    /\ UNCHANGED <<ldbs, leaseVars, raceVars, submitVars, authzVars>>

\* ldb, err := NewLeaseDB(leaseDBType, cfg), and the return that follows
CreateLeaseDB ==
    /\ bstate.pc = "newdb"
    /\ LET type == leaseDBType(bstate.cfg)
       IN  \E ok \in NewLeaseDB(type, bstate.cfg) :
               IF ok
               THEN /\ ldbs' = Append(ldbs, type)
                    /\ bstate' = [pc |-> "returned",
                                  services |-> [nil |-> FALSE,
                                                Access |-> bstate.cfg.AccessConfigFile,
                                                Leases |-> Len(ldbs) + 1],
                                  err |-> Nil]
                                     @@ [bstate EXCEPT !.dbType = type,
                                                       !.created = TRUE]
               ELSE /\ ldbs' = ldbs
                    /\ bstate' = [pc |-> "returned", services |-> Nil,
                                  err |-> errors_Wrap("could not create lease DB")]
                                     @@ [bstate EXCEPT !.dbType = type]
    /\ UNCHANGED <<leaseVars, raceVars, submitVars, authzVars>>

NextStart ==
    \/ \E cfg \in Configs : StartCall(cfg)
    \/ Load
    \/ CreateLeaseDB

SpecStart == Init /\ [][NextStart]_vars

-----------------------------------------------------------------------------
(* Properties of the lease table.                                          *)

\* a lease is live at time t while its age is below MaxLeaseTime
Live(l, t) == t - l.time < MaxLeaseTime

\* C1: overlap invariant.  After any sequence of new_lease, check_lease,
\* end_lease and clear_leases calls at any clock values, the table never holds
\* two live leases whose paths overlap component-wise.
C1_OverlapInvariant ==
    \A l1, l2 \in table :
        (l1 # l2 /\ Live(l1, now) /\ Live(l2, now))
            => ~are_overlapping(l1.path, l2.path)

\* C2: while a lease on p1 is live and not released, every new_lease for a
\* path that overlaps p1 (equal, ancestor or descendant) is answered busy and
\* never granted.
C2_OverlapIsBusy ==
    [][ \A u \in Users, p2 \in Paths, pub \in Publics, s \in Secrets :
            ( /\ NewLease(u, p2, pub, s)
              /\ \E l \in table : Live(l, now) /\ are_overlapping(l.path, p2) )
                => last'.reply.res = "busy" ]_vars

\* C4: for a lease in the table (granted, and not removed since), check_lease
\* on its public answers ok exactly while now < time + MaxLeaseTime; with no
\* lease of that public in the table (never granted, or released) it never
\* answers ok.
C4_CheckOkExactlyWhileLive ==
    [][ \A pub \in Publics :
            CheckLease(pub) =>
                /\ \A l \in table :
                       l.public = pub =>
                           (last'.reply.res = "ok" <=> now < l.time + MaxLeaseTime)
                /\ (\A l \in table : l.public # pub) => last'.reply.res # "ok" ]_vars

\* C5: end_lease is idempotent.  It answers ok; a second end_lease of the same
\* public answers the same and leaves the table as the first one left it; and
\* with no lease of that public the table is unchanged.
C5_ReleaseIdempotent ==
    [][ \A pub \in Publics :
            EndLease(pub) =>
                /\ last'.reply.res = "ok"
                /\ \A r \in p_end_lease(table', pub) :
                       r.table = table' /\ r.reply = last'.reply
                /\ (\A l \in table : l.public # pub) => table' = table ]_vars

\* C10: no operation returns an expired lease: every lease get_leases lists,
\* and the lease a check_lease answering ok has found, has age below
\* MaxLeaseTime at the time of the call.
C10_NoExpiredLeaseReturned ==
    [][ /\ GetLeases => \A l \in last'.reply.leases : now - l.time < MaxLeaseTime
        /\ \A pub \in Publics :
               (CheckLease(pub) /\ last'.reply.res = "ok") =>
                   \E l \in table : /\ l.public = pub
                                    /\ l.secret = last'.reply.secret
                                    /\ now - l.time < MaxLeaseTime ]_vars

\* C11: the public is unique across the leases of the table: after any
\* sequence of new_lease calls no two rows at different paths carry the same
\* public, an insert whose public collides with a row being refused.
C11_PublicUnique ==
    \A l1, l2 \in table : l1.path # l2.path => l1.public # l2.public

\* C12: when every lease that overlaps p (at p, at an ancestor or at a
\* descendant, one or several) is expired, new_lease on p is granted, and
\* afterwards the table holds no lease overlapping p but the one granted.
C12_ExpiredOverlapsDrained ==
    [][ \A u \in Users, p \in Paths, pub \in Publics, s \in Secrets :
            ( /\ NewLease(u, p, pub, s)
              /\ \E l \in table : are_overlapping(l.path, p)
              /\ \A l \in table : are_overlapping(l.path, p) => ~Live(l, now) )
                => /\ last'.reply.res = "ok"
                   /\ \A l \in table' : are_overlapping(l.path, p) => l.path = p ]_vars

\* the step is a new_lease, end_lease or check_lease call, with the path and
\* public that last records afterwards
NewLeaseStep ==
    /\ last'.op = "new_lease"
    /\ \E u \in Users, s \in Secrets : NewLease(u, last'.path, last'.public, s)

EndLeaseStep == last'.op = "end_lease" /\ EndLease(last'.public)

CheckLeaseStep == last'.op = "check_lease" /\ CheckLease(last'.public)

\* C21: the frame of the lease operations.  A new_lease answered busy leaves
\* the table unchanged; a granted new_lease on p changes only the row at path
\* p; end_lease changes nothing but one lease whose public matches; and
\* check_lease changes the table only by deleting the lease it checked, and
\* only when it reports that lease expired (answering ok or invalid_lease it
\* changes nothing).
C21_Frame ==
    [][ /\ NewLeaseStep =>
               /\ last'.reply.res = "busy" => table' = table
               /\ last'.reply.res = "ok" =>
                      /\ { l \in table' : l.path # last'.path }
                             = { l \in table : l.path # last'.path }
                      /\ Cardinality({ l \in table' : l.path = last'.path }) = 1
        /\ EndLeaseStep =>
               /\ table' \subseteq table
               /\ Cardinality(table \ table') <= 1
               /\ \A l \in table \ table' : l.public = last'.public
        /\ CheckLeaseStep =>
               /\ table' \subseteq table
               /\ Cardinality(table \ table') <= 1
               /\ \A l \in table \ table' :
                      /\ l.public = last'.public
                      /\ ~Live(l, now)
                      /\ last'.reply = [res |-> "error", reason |-> "lease_expired"]
               /\ last'.reply = [res |-> "error", reason |-> "lease_expired"]
                      => Cardinality(table \ table') = 1
               /\ \/ last'.reply.res = "ok"
                  \/ last'.reply = [res |-> "error", reason |-> "invalid_lease"]
                  => table' = table ]_vars

\* a check_lease that reported its lease expired and deleted it, the other
\* lease of the table left in place
C21_Witness ==
    /\ last.op = "check_lease"
    /\ last.reply = [res |-> "error", reason |-> "lease_expired"]
    /\ table # {}
    /\ \A l \in table : l.public # last.public

\* C17: get_leases after clear_leases is empty: whatever rows the calls before
\* left in the table, once clear_leases has been served the table is empty
\* and a get_leases served next lists no lease.
C17_ListAfterClearEmpty ==
    last.op = "clear_leases" =>
        /\ table = {}
        /\ p_get_leases(table).reply.leases = {}

\* clear_leases has been served after leases were granted and time has passed
C17_Witness ==
    /\ last.op = "clear_leases"
    /\ now > 0
    /\ p_get_leases(table).reply.leases = {}

-----------------------------------------------------------------------------
(* Properties of concurrent callers (SpecRace).                            *)

\* w1's call was handled while w2's call for the same path was queued behind it
Raced(w1, w2) ==
    /\ w1 # w2
    /\ wpc[w1] = "done" /\ wpc[w2] = "done"
    /\ wres[w1].path = wres[w2].path
    /\ wres[w1].pending = 1

\* C3 as stated: two new_lease calls for one path, in the mailbox together
\* with no lease at that path, end with exactly one granted and the other
\* busy with remaining > 0, in every interleaving.
C3_ExactlyOneGranted ==
    \A w1, w2 \in Workers :
        Raced(w1, w2) =>
            /\ wres[w1].reply.res = "ok"
            /\ wres[w2].reply.res = "busy"
            /\ wres[w2].reply.rem > 0

\* C3 amended: the call handled first is granted; the second is answered busy
\* with remaining = MaxLeaseTime - (now - time) > 0 when it is handled less
\* than MaxLeaseTime after the time of the first one's row, and is granted
\* too only when that row has expired by then.
C3_SerializedUnlessExpired ==
    \A w1, w2 \in Workers :
        Raced(w1, w2) =>
            /\ wres[w1].reply.res = "ok"
            /\ IF wres[w2].at - wres[w1].row < MaxLeaseTime
               THEN /\ wres[w2].reply.res = "busy"
                    /\ wres[w2].reply.rem = MaxLeaseTime - (wres[w2].at - wres[w1].row)
                    /\ wres[w2].reply.rem > 0
               ELSE wres[w2].reply.res = "ok"

\* both calls of a race are answered, the second one busy
C3_Witness ==
    \E w1, w2 \in Workers :
        /\ Raced(w1, w2)
        /\ wres[w1].reply.res = "ok"
        /\ wres[w2].reply.res = "busy"

\* C13: the expiry boundary of new_lease.  With a row on path p of time t, a
\* new_lease on p served at now < t + MaxLeaseTime is answered busy with
\* remaining = MaxLeaseTime - (now - t) > 0 and leaves the table as it is; one
\* served at exactly now = t + MaxLeaseTime takes the row as expired, is
\* granted, and its row replaces the old one.
C13_ExpiryBoundary ==
    [][ Serve =>
            LET m == Head(mailbox)
            IN  \A l \in table :
                    l.path = m.path =>
                        /\ now < l.time + MaxLeaseTime =>
                               /\ last'.reply.res = "busy"
                               /\ last'.reply.rem = MaxLeaseTime - (now - l.time)
                               /\ last'.reply.rem > 0
                               /\ table' = table
                        /\ now = l.time + MaxLeaseTime =>
                               /\ last'.reply.res = "ok"
                               /\ l \notin table'
                               /\ \E n \in table' :
                                      /\ n.path = m.path
                                      /\ n.public = m.public
                                      /\ n.time >= now
                                      /\ \A o \in table' : o.path = m.path => o = n ]_vars

\* a second call for the path served exactly MaxLeaseTime after the time of
\* the first one's row, and granted
C13_Witness ==
    \E w1, w2 \in Workers :
        /\ w1 # w2
        /\ wpc[w1] = "done" /\ wpc[w2] = "done"
        /\ wres[w1].path = wres[w2].path
        /\ wres[w1].reply.res = "ok"
        /\ wres[w2].at = wres[w1].row + MaxLeaseTime
        /\ wres[w2].reply.res = "ok"
        /\ \E n \in table : n.path = wres[w2].path /\ n.time = wres[w2].row

-----------------------------------------------------------------------------
(* Properties of payload submission (SpecSubmit).                          *)

\* the declared hash decodes to the SHA-1 of the payload
HashVerified(Payload, Hash) ==
    /\ base64_decode(Hash).ok
    /\ base64_decode(Hash).bytes = crypto_hash_sha(Payload)

\* C6: a submission is answered status ok if and only if the lease check of
\* its token is ok, the SHA-1 of the payload equals the decoded declared hash
\* and the storage backend accepts the payload; in every other case it is
\* answered status error with a reason.
C6_SubmitOkIff ==
    [][ \A t \in Tokens, p \in Payloads, h \in Hashes, acc \in BOOLEAN :
            Submit(t, p, h, acc) =>
                LET leaseOk == /\ table' = table
                               /\ \E l \in table : /\ l.public = token_public(t)
                                                   /\ Live(l, now)
                IN  /\ sub'.reply.status = "ok"
                        <=> (leaseOk /\ HashVerified(p, h) /\ acc)
                    /\ sub'.reply.status # "ok"
                        => ( /\ sub'.reply.status = "error"
                             /\ "reason" \in DOMAIN sub'.reply ) ]_vars

SubmitStep ==
    /\ sub'.op = "submit"
    /\ \E acc \in BOOLEAN : Submit(sub'.token, sub'.payload, sub'.hash, acc)

\* C18 as stated: the lease is checked before the content hash: a submission
\* whose token matches no lease, or only expired leases, is answered
\* invalid_lease or lease_expired whatever the declared hash is, also when the
\* declared hash does not match the payload.
C18_LeaseBeforeHash ==
    [][ SubmitStep =>
            LET rows == public_select(table, token_public(sub'.token))
            IN  /\ rows = {} =>
                       sub'.reply = [status |-> "error", reason |-> "invalid_lease"]
                /\ (rows # {} /\ \A l \in rows : ~Live(l, now)) =>
                       sub'.reply = [status |-> "error", reason |-> "lease_expired"]
      ]_vars

\* C18 amended: the content hash is checked before the lease.  A declared
\* hash that decodes and does not match the payload is answered
\* invalid_payload_hash whatever the lease of the token, and the lease is not
\* looked at; a declared hash that is not base64 raises and nothing is
\* answered; with a matching hash, a token that matches no lease is answered
\* invalid_lease and one that matches only expired leases lease_expired.
C18_HashBeforeLease ==
    [][ SubmitStep =>
            LET rows == public_select(table, token_public(sub'.token))
                p    == sub'.payload
                h    == sub'.hash
            IN  /\ ~base64_decode(h).ok =>
                       (sub'.crashed /\ ~sub'.beCalled /\ table' = table)
                /\ (base64_decode(h).ok /\ ~HashVerified(p, h)) =>
                       /\ sub'.reply = [status |-> "error",
                                        reason |-> "invalid_payload_hash"]
                       /\ ~sub'.beCalled
                       /\ table' = table
                /\ (HashVerified(p, h) /\ rows = {}) =>
                       sub'.reply = [status |-> "error", reason |-> "invalid_lease"]
                /\ (HashVerified(p, h) /\ rows # {} /\ \A l \in rows : ~Live(l, now)) =>
                       sub'.reply = [status |-> "error", reason |-> "lease_expired"]
      ]_vars

\* a submission whose token matches no lease and whose declared hash is the
\* digest of another payload, answered invalid_payload_hash
C18_Witness ==
    /\ sub.op = "submit"
    /\ public_select(table, token_public(sub.token)) = {}
    /\ base64_decode(sub.hash).ok
    /\ ~HashVerified(sub.payload, sub.hash)
    /\ ~sub.beCalled
    /\ sub.reply = [status |-> "error", reason |-> "invalid_payload_hash"]

-----------------------------------------------------------------------------
(* Properties of the payloads handler (SpecHandler).                       *)

\* the body is a JSON object with the fields session_token, payload and hash
WellFormedData(Data) ==
    /\ jsx_decode(Data).ok
    /\ FieldNames \subseteq jsx_decode(Data).map.has

\* C15: the status codes of the payloads endpoint.  A request with a wrong
\* method is answered 405; a POST whose body is malformed JSON or lacks one of
\* session_token, payload, hash is answered 400 and the submission is not
\* called; every well-formed POST is answered 200, also when the reply body
\* reports status error.
C15_StatusCodes ==
    sub.op = "http" =>
        /\ sub.method # "POST" => sub.status = 405
        /\ (sub.method = "POST" /\ ~WellFormedData(sub.data)) =>
               (sub.status = 400 /\ ~sub.submitCalled)
        /\ (sub.method = "POST" /\ WellFormedData(sub.data)) => sub.status = 200

-----------------------------------------------------------------------------
(* Properties of the authorization middleware (SpecAuthz).                 *)

\* the first n bytes of a byte string
FirstBytes(bytes, n) == SubSeq(bytes, 1, IF n < Len(bytes) THEN n ELSE Len(bytes))

\* the header is a key ID and a base64 text separated by one space
WellFormedAuth(h) ==
    \E k \in 1..Len(h) :
        /\ h[k] = SP
        /\ \A j \in 1..Len(h) : j # k => h[j][1] # "sp"
        /\ base64_DecodeString(SubSeq(h, k + 1, Len(h))).ok

AuthKey(h) == SubSeq(h, 1, (CHOOSE k \in 1..Len(h) : h[k][1] = "sp") - 1)

AuthHMAC(h) ==
    base64_DecodeString(
        SubSeq(h, (CHOOSE k \in 1..Len(h) : h[k][1] = "sp") + 1, Len(h))).bytes

\* the signed material of a request, by route
SignedMaterial(req) ==
    IF req.resource = "leases" /\ req.token = <<>> THEN req.body
    ELSE IF req.resource \in { "leases", "payloads" } /\ req.token # <<>> THEN req.token
    ELSE IF req.resource = "payloads"
         THEN FirstBytes(req.body, strconv_Atoi(req.msgsize).n)
    ELSE <<>>

\* the signed material can be taken from the request: the body, where it is
\* read to its end, does not fail, and the message-size header is a number
MaterialAvailable(req) ==
    /\ (req.resource = "leases" /\ req.token = <<>>) => ~req.broken
    /\ (req.resource = "payloads" /\ req.token = <<>>) =>
           /\ strconv_Atoi(req.msgsize).ok
           /\ ~(req.broken /\ strconv_Atoi(req.msgsize).n > Len(req.body))

\* C8: HMAC gate.  A request that is not a GET reaches the next handler only
\* if its Authorization header is a key ID and a base64 HMAC separated by one
\* space, the key ID has a non-empty secret and the HMAC is that of the signed
\* material under that secret; otherwise the handler is not invoked, and a
\* failure of the header, of the key or of the HMAC is answered status error,
\* reason invalid_hmac.
C8_HMACGate ==
    (areq.op = "request" /\ areq.method # "GET") =>
        LET authorized ==
                /\ WellFormedAuth(areq.auth)
                /\ GetSecret(AuthKey(areq.auth)) # ""
                /\ MaterialAvailable(areq)
                /\ AuthHMAC(areq.auth)
                       = ComputeHMAC(aout.hmacInput, GetSecret(AuthKey(areq.auth)))
            hmacFailure ==
                \/ ~WellFormedAuth(areq.auth)
                \/ GetSecret(AuthKey(areq.auth)) = ""
                \/ /\ MaterialAvailable(areq)
                   /\ AuthHMAC(areq.auth)
                          # ComputeHMAC(SignedMaterial(areq),
                                        GetSecret(AuthKey(areq.auth)))
        IN  /\ aout.next => authorized
            /\ ~authorized => ~aout.next
            /\ hmacFailure => (~aout.next /\ aout.reply = InvalidHMAC)

\* a POST signed with the secret of its key reaches the next handler
C8_Witness ==
    /\ areq.op = "request"
    /\ areq.method = "POST"
    /\ aout.checked
    /\ aout.next

\* C9: the signed material is selected by route: the full body for POST
\* /leases, the {token} segment for POST or DELETE /leases/{token} and for
\* POST /payloads/{token}, and the first message-size bytes of the body for
\* POST /payloads.
C9_SignedMaterialByRoute ==
    (areq.op = "request" /\ aout.checked) =>
        /\ (areq.method = "POST" /\ areq.resource = "leases" /\ areq.token = <<>>)
               => aout.hmacInput = areq.body
        /\ ( /\ areq.method \in { "POST", "DELETE" }
             /\ areq.resource = "leases"
             /\ areq.token # <<>> )
               => aout.hmacInput = areq.token
        /\ (areq.method = "POST" /\ areq.resource = "payloads" /\ areq.token # <<>>)
               => aout.hmacInput = areq.token
        /\ (areq.method = "POST" /\ areq.resource = "payloads" /\ areq.token = <<>>)
               => /\ strconv_Atoi(areq.msgsize).ok
                  /\ aout.hmacInput
                         = FirstBytes(areq.body, strconv_Atoi(areq.msgsize).n)

\* a legacy submission whose message-size is below the length of its body,
\* verified on the first bytes and forwarded
C9_Witness ==
    /\ areq.op = "request"
    /\ areq.method = "POST" /\ areq.resource = "payloads" /\ areq.token = <<>>
    /\ areq.msgsize = <<"int", 1>>
    /\ areq.body = <<1, 2>>
    /\ aout.checked /\ aout.next
    /\ aout.hmacInput = <<1>>

\* the methods HTTP defines as safe (read-only) among those served
SafeMethods == { "GET", "HEAD" }

\* the request is handed to the next handler as it came: nothing verified,
\* nothing answered, the body untouched
PassedUnchanged ==
    /\ aout.next
    /\ aout.reply = NoReply
    /\ ~aout.checked
    /\ aout.handlerBody = areq.body
    /\ ~aout.origClosed

\* C14 as stated: a request with a safe (read-only) method bypasses the HMAC
\* verification: it is passed to the next handler unchanged whatever its
\* Authorization header, key ID and body.
C14_SafeMethodsBypass ==
    (areq.op = "request" /\ areq.method \in SafeMethods) => PassedUnchanged

\* C14 amended: a GET request bypasses the HMAC verification and is passed to
\* the next handler unchanged whatever its Authorization header, key ID and
\* body; a HEAD request is verified like any other method.
C14_GetBypasses ==
    /\ (areq.op = "request" /\ areq.method = "GET") => PassedUnchanged
    /\ (areq.op = "request" /\ areq.method = "HEAD" /\ aout.next) => aout.checked

\* a GET request without Authorization header, over a failing body stream,
\* handed on
C14_Witness ==
    /\ areq.op = "request"
    /\ areq.method = "GET"
    /\ areq.auth = <<>>
    /\ areq.broken
    /\ aout.next

\* a legacy submission (POST /payloads without token) whose message-size
\* header is a number above the length of its body
LegacyOversized(req) ==
    /\ req.op = "request"
    /\ req.method = "POST" /\ req.resource = "payloads" /\ req.token = <<>>
    /\ strconv_Atoi(req.msgsize).ok
    /\ strconv_Atoi(req.msgsize).n > Len(req.body)

\* C16 as stated: a legacy submission with message-size above the length of
\* the body, read to the end of the body, fails with invalid_hmac and the next
\* handler is not invoked.
C16_OversizedFails ==
    (LegacyOversized(areq) /\ ~areq.broken) =>
        (~aout.next /\ aout.reply = InvalidHMAC)

\* C16 amended: for such a submission the body is read to its end and the
\* HMAC is verified over the whole body: the request is handed on exactly when
\* the header is well formed, the key has a secret, the stream does not fail
\* and the HMAC is that of the whole body; a stream that fails is answered
\* 400, every other failure invalid_hmac.
C16_OversizedChecksWholeBody ==
    LegacyOversized(areq) =>
        LET headerOk == /\ WellFormedAuth(areq.auth)
                        /\ GetSecret(AuthKey(areq.auth)) # ""
        IN  /\ aout.checked => aout.hmacInput = areq.body
            /\ aout.next <=>
                   /\ headerOk
                   /\ ~areq.broken
                   /\ AuthHMAC(areq.auth)
                          = ComputeHMAC(areq.body, GetSecret(AuthKey(areq.auth)))
            /\ (headerOk /\ areq.broken) =>
                   (~aout.next /\ aout.reply = HTTPError(400))
            /\ (~aout.next /\ ~(headerOk /\ areq.broken)) =>
                   aout.reply = InvalidHMAC

\* a legacy submission of two bytes with message-size 3, signed over its whole
\* body, handed on
C16_Witness ==
    /\ LegacyOversized(areq)
    /\ areq.body = <<1, 2>>
    /\ areq.msgsize = <<"int", 3>>
    /\ aout.checked
    /\ aout.hmacInput = <<1, 2>>
    /\ aout.next

\* the middleware has read from the body of the request: the header checks
\* were passed and the route takes the signed material from the body
ReadsBody(req) ==
    /\ ~no_authorization_needed(req)
    /\ WellFormedAuth(req.auth)
    /\ GetSecret(AuthKey(req.auth)) # ""
    /\ req.token = <<>>
    /\ \/ req.resource = "leases"
       \/ req.resource = "payloads" /\ strconv_Atoi(req.msgsize).ok

\* C19: the body round trip.  Whenever body bytes are consumed for the
\* verification (new-lease request; legacy submission with any message-size,
\* from zero to beyond the length of the body) and the request is handed on,
\* the bytes the next handler reads from the body are the original body: the
\* head followed by the unread tail, nothing lost, duplicated or reordered.
C19_BodyRoundTrip ==
    (areq.op = "request" /\ ReadsBody(areq) /\ aout.next) =>
        aout.handlerBody = areq.body

\* a legacy submission of two bytes verified on its first byte and handed on
\* with both bytes to read
C19_Witness ==
    /\ areq.op = "request"
    /\ ReadsBody(areq)
    /\ areq.resource = "payloads"
    /\ aout.next
    /\ Len(aout.hmacInput) = 1
    /\ aout.handlerBody = <<1, 2>>

\* C20: on every exit path of the middleware that has read from the body
\* (read error, invalid HMAC, request handed on and the handler closing the
\* replaced body) the original body stream ends up closed.
C20_OriginalBodyClosed ==
    (areq.op = "request" /\ ReadsBody(areq)) => ClosedAfterHandler(areq, aout)

-----------------------------------------------------------------------------
(* Properties of the start of the backend (SpecStart).                     *)

\* C22: Start returns a Services value if and only if both the loading of the
\* access configuration and the creation of the lease DB succeed; if the
\* access configuration fails to load an error is returned and no lease DB is
\* created; the lease DB is of type "etcd" exactly when cfg.UseEtcd is set,
\* and "embedded" otherwise.
C22_StartServices ==
    [][ (bstate.pc # "returned" /\ bstate'.pc = "returned") =>
            LET b == bstate'
            IN  /\ b.services # Nil <=> (b.loaded /\ b.created)
                /\ b.services # Nil <=> b.err = Nil
                /\ ~b.loaded =>
                       /\ b.services = Nil
                       /\ b.err # Nil
                       /\ b.dbType = "none"
                       /\ ldbs' = ldbs
                /\ b.loaded =>
                       /\ b.dbType = "etcd" <=> b.cfg.UseEtcd
                       /\ b.dbType = "embedded" <=> ~b.cfg.UseEtcd
                /\ b.created =>
                       /\ ldbs' = Append(ldbs, b.dbType)
                       /\ b.services.Leases = Len(ldbs')
                       /\ b.services.Access = b.cfg.AccessConfigFile
                /\ ~b.created => ldbs' = ldbs ]_vars

\* Start has returned Services over an etcd lease DB, after an earlier call
\* returned an error
C22_Witness ==
    /\ bstate.pc = "returned"
    /\ bstate.n = 2
    /\ bstate.cfg.UseEtcd
    /\ bstate.services # Nil
    /\ ldbs = << "etcd" >>

====
